---------------------------- MODULE Spec2Model ----------------------------
(***************************************************************************)
(* A model of pysrt's SubRipFile (src/pysrt/srtfile.py): the two-pointer   *)
(* aligner match(), the streaming block parser stream() with its three     *)
(* error policies, the serializer write_into(), the time-window selection  *)
(* slice()/at(), shift() and clean_indexes() on shared items, and read()   *)
(* with the write-once eol.                                                *)
(*                                                                         *)
(* Times are SubRipTime ordinals (integer milliseconds).  Python indexes   *)
(* are 0-based; a TLA+ sequence is 1-based, so Get(f, k) reads f[k + 1].   *)
(* SubRipItem and SubRipTime live in pysrt/srtitem.py and pysrt/srttime.py,*)
(* which are not part of src/: what the model needs of them is taken from  *)
(* spec.md and marked so in MODEL_MAP.json.                                *)
(***************************************************************************)
EXTENDS Integers, Sequences, FiniteSets, TLC

VARIABLES
    op,             \* which operation this behaviour exercises
    py,             \* major version of the interpreter running the code
    self,           \* match(): the receiver's records
    other,          \* match(): the argument's records
    i,              \* match(): pointer into self
    j,              \* match(): pointer into other
    ret,            \* match(): the merged collection being built
    lang_stat,      \* match(): ret.lang_stat, records per language
    langs,          \* match(): ret.langs, the dominant languages
    pc,             \* position of the running operation
    last,           \* what the last outer iteration of match() did
    source_file,    \* stream(): the lines of the source
    index,          \* stream(): lines taken from chain(source_file, '\n')
    string_buffer,  \* stream(): the lines of the block being accumulated
    yielded,        \* stream(): the items yielded so far
    stderr,         \* what has been written to sys.stderr
    error_handling, \* stream(): ERROR_PASS, ERROR_LOG or ERROR_RAISE
    raised,         \* the exception that ended the operation, if any
    data,           \* the collection's items, in order
    _eol,           \* the collection's _eol, <<>> for None
    linesep,        \* os.linesep
    eol,            \* write_into(): the eol argument, <<>> for None
    output_file,    \* write_into(): what has been written
    written,        \* write_into(): the items the loop has gone through
    heap,           \* the SubRipItem objects, by identity
    subs,           \* slice(): the receiver's data, the identities in order
    clone,          \* slice(): the data of the collection returned
    call,           \* slice(): the last call and its arguments
    slices,         \* the data of the collections slice() has returned
    calls,          \* the calls made on the collection and its slices
    string_iterable, \* read(): the source given, its kind and its position
    before,         \* read(): the collection's items when read() was called
    given,          \* the eol given to the constructor, <<>> for None
    history         \* the eols read() detected and the eols assigned, in order

matchVars == <<self, other, i, j, ret, lang_stat, langs, last>>

streamVars ==
    <<source_file, index, string_buffer, yielded, stderr, error_handling,
      raised>>

fileVars == <<data, _eol, linesep, eol, output_file, written>>

sliceVars == <<heap, subs, clone, call, slices, calls>>

readVars == <<string_iterable, before, given, history>>

vars == <<op, py, pc, matchVars, streamVars, fileVars, sliceVars, readVars>>

(***************************************************************************)
(* Bounds of the model.                                                    *)
(***************************************************************************)
MaxLen == 3         \* a track of match() has at most this many records
MaxTotal == 5       \* len(self) + len(other) is at most this
MaxTick == 4        \* times are 0, 500, ..., 500 * MaxTick

PyVersions == {2, 3}

Abs(x) == IF x < 0 THEN 0 - x ELSE x

Get(f, k) == f[k + 1]

(***************************************************************************)
(* match(): helpers                                                        *)
(***************************************************************************)
T == 1000

(* A variant of merge_dict in which the second map overrides the first,    *)
(* as dict.update would.                                                   *)
merge_dict_update(d1, d2) ==
    [key \in (DOMAIN d1) \cup (DOMAIN d2) |->
        IF key \in DOMAIN d2 THEN d2[key] ELSE d1[key]]

merge_dict(d1, d2) ==
    [key \in (DOMAIN d1) \cup (DOMAIN d2) |->
        IF key \in DOMAIN d1 /\ key \in DOMAIN d2
        THEN d1[key] \o d2[key]
        ELSE IF key \in DOMAIN d1 THEN d1[key] ELSE d2[key]]


(* SubRipItem(start=..., end=..., lang_map=...): a record of its fields.   *)
SubRipItem(start, end, lang_map) ==
    [start |-> start, end |-> end, lang_map |-> lang_map]

(* reduce(merge_dict, maps) over a non-empty list: a left fold.            *)
RECURSIVE reduce_merge_dict(_)
reduce_merge_dict(maps) ==
    IF Len(maps) = 1
    THEN maps[1]
    ELSE merge_dict(reduce_merge_dict(SubSeq(maps, 1, Len(maps) - 1)),
                    maps[Len(maps)])

LangMaps(bag) == [k \in 1..Len(bag) |-> bag[k].lang_map]

(* The look-ahead test `j+1 < other_num` (resp. `i+1 < self_num`).         *)
HasNext(f, k) == k + 1 < Len(f)

(* A variant of other_group_end that accumulates other[j] alone.           *)
other_group_end_single(slf, oth, ii, jj) == jj

(* The grouping loop of lines 378-381: the last index of the run of other  *)
(* records, from jj on, whose successors end less than T after slf[ii].    *)
RECURSIVE other_group_end(_, _, _, _)
other_group_end(slf, oth, ii, jj) ==
    IF HasNext(oth, jj) /\ Get(oth, jj + 1).end - Get(slf, ii).end < T
    THEN other_group_end(slf, oth, ii, jj + 1)
    ELSE jj

(* The grouping loop of lines 397-399, the roles exchanged.                *)
RECURSIVE self_group_end(_, _, _, _)
self_group_end(slf, oth, ii, jj) ==
    IF HasNext(slf, ii) /\ Get(slf, ii + 1).end - Get(oth, jj).end < T
    THEN self_group_end(slf, oth, ii + 1, jj)
    ELSE ii

(* The indexes a grouping loop reads: every k+1 it tested and found in     *)
(* range, for k from `from` to the index `to` it stopped at.               *)
LoopReads(f, from, to) ==
    {k + 1 : k \in {x \in from..to : HasNext(f, x)}}

Step(branch, ii, jj, gi, gj, emitted, rs, ro) ==
    [branch |-> branch, i0 |-> ii, j0 |-> jj, gi |-> gi, gj |-> gj,
     emitted |-> emitted, reads_self |-> rs, reads_other |-> ro]

NoStep == Step("none", 0, 0, 0, 0, FALSE, {}, {})

Outcome(ii, jj, rt, p, l) ==
    [i |-> ii, j |-> jj, ret |-> rt, pc |-> p, last |-> l]

(* A variant of one_to_one that emits over the window of other[j], as the  *)
(* earlier version kept in the comment of line 402 did.                    *)
one_to_one_other_span(slf, oth, ii, jj, rt) ==
    Outcome(ii + 1, jj + 1,
            Append(rt, SubRipItem(Get(oth, jj).start, Get(oth, jj).end,
                                  reduce_merge_dict(<<Get(slf, ii).lang_map,
                                                      Get(oth, jj).lang_map>>))),
            "loop",
            Step("one_to_one", ii, jj, ii, jj, TRUE, {ii}, {jj}))

(* A variant of one_to_one that leaves j where it is.                      *)
one_to_one_keep_j(slf, oth, ii, jj, rt) ==
    Outcome(ii + 1, jj,
            Append(rt, SubRipItem(Get(slf, ii).start, Get(slf, ii).end,
                                  reduce_merge_dict(<<Get(slf, ii).lang_map,
                                                      Get(oth, jj).lang_map>>))),
            "loop",
            Step("one_to_one", ii, jj, ii, jj, TRUE, {ii}, {jj}))

(* Lines 359-368: the ends agree too, one record of each track.            *)
one_to_one(slf, oth, ii, jj, rt) ==
    LET l_map == reduce_merge_dict(<<Get(slf, ii).lang_map,
                                     Get(oth, jj).lang_map>>)
    IN  Outcome(ii + 1, jj + 1,
                Append(rt, SubRipItem(Get(slf, ii).start, Get(slf, ii).end,
                                      l_map)),
                "loop",
                Step("one_to_one", ii, jj, ii, jj, TRUE, {ii}, {jj}))

(* Lines 369-390: several records of other against one of self.  In        *)
(* Python 2 the list comprehension of line 387 rebinds i to the last item  *)
(* of other_bag, and self[i] on line 388 raises TypeError; in Python 3 the *)
(* comprehension has its own scope.                                        *)
one_to_many(slf, oth, ii, jj, rt, pv) ==
    IF HasNext(oth, jj) /\ Get(oth, jj + 1).end - Get(slf, ii).end > T
    THEN Outcome(ii + 1, jj + 1, rt, "loop",
                 Step("one_to_many_skip", ii, jj, ii, jj, FALSE,
                      {ii}, {jj, jj + 1}))
    ELSE
        LET je == other_group_end(slf, oth, ii, jj)
            other_bag == SubSeq(oth, jj + 1, je + 1)
            ro == {jj} \cup LoopReads(oth, jj, jj) \cup LoopReads(oth, jj, je)
                       \cup {je}
        IN  IF Abs(Get(oth, je).end - Get(slf, ii).end) < T
            THEN IF pv = 2
                 THEN Outcome(ii, je, rt, "TypeError",
                              Step("one_to_many", ii, jj, ii, je, FALSE,
                                   {ii}, ro))
                 ELSE Outcome(ii + 1, je + 1,
                              Append(rt, SubRipItem(
                                  Get(slf, ii).start, Get(slf, ii).end,
                                  reduce_merge_dict(LangMaps(other_bag)))),
                              "loop",
                              Step("one_to_many", ii, jj, ii, je, TRUE,
                                   {ii}, ro))
            ELSE Outcome(ii + 1, je + 1, rt, "loop",
                         Step("one_to_many", ii, jj, ii, je, FALSE, {ii}, ro))

(* A variant of many_to_one whose final test accepts a difference of       *)
(* exactly T, unlike the test of one_to_many.                              *)
many_to_one_inclusive(slf, oth, ii, jj, rt, pv) ==
    LET ie == self_group_end(slf, oth, ii, jj)
    IN  IF HasNext(slf, ii) /\ Get(slf, ii + 1).end - Get(oth, jj).end > T
        THEN Outcome(ii + 1, jj + 1, rt, "loop",
                     Step("many_to_one_skip", ii, jj, ii, jj, FALSE,
                          {ii, ii + 1}, {jj}))
        ELSE IF Abs(Get(slf, ie).end - Get(oth, jj).end) <= T /\ pv = 3
        THEN Outcome(ie + 1, jj + 1,
                     Append(rt, SubRipItem(
                         Get(slf, ie).start, Get(slf, ie).end,
                         reduce_merge_dict(LangMaps(
                             SubSeq(slf, ii + 1, ie + 1))))),
                     "loop",
                     Step("many_to_one", ii, jj, ie, jj, TRUE, ii..ie, {jj}))
        ELSE Outcome(ie + 1, jj + 1, rt, "loop",
                     Step("many_to_one", ii, jj, ie, jj, FALSE, ii..ie, {jj}))

(* Lines 391-407: several records of self against one of other.            *)
many_to_one(slf, oth, ii, jj, rt, pv) ==
    IF HasNext(slf, ii) /\ Get(slf, ii + 1).end - Get(oth, jj).end > T
    THEN Outcome(ii + 1, jj + 1, rt, "loop",
                 Step("many_to_one_skip", ii, jj, ii, jj, FALSE,
                      {ii, ii + 1}, {jj}))
    ELSE
        LET ie == self_group_end(slf, oth, ii, jj)
            self_bag == SubSeq(slf, ii + 1, ie + 1)
            rs == {ii} \cup LoopReads(slf, ii, ii) \cup LoopReads(slf, ii, ie)
                       \cup {ie}
        IN  IF Abs(Get(slf, ie).end - Get(oth, jj).end) < T
            THEN IF pv = 2
                 THEN Outcome(ie, jj, rt, "TypeError",
                              Step("many_to_one", ii, jj, ie, jj, FALSE,
                                   rs, {jj}))
                 ELSE Outcome(ie + 1, jj + 1,
                              Append(rt, SubRipItem(
                                  Get(slf, ie).start, Get(slf, ie).end,
                                  reduce_merge_dict(LangMaps(self_bag)))),
                              "loop",
                              Step("many_to_one", ii, jj, ie, jj, TRUE,
                                   rs, {jj}))
            ELSE Outcome(ie + 1, jj + 1, rt, "loop",
                         Step("many_to_one", ii, jj, ie, jj, FALSE, rs, {jj}))

(* Line 408-409 and 410-411: the starts are apart, the track behind moves. *)
(* A variant of advance_i that forgets the increment.                      *)
advance_i_stuck(ii, jj, rt) ==
    Outcome(ii, jj, rt, "loop",
            Step("advance_i", ii, jj, ii, jj, FALSE, {ii}, {jj}))

advance_i(ii, jj, rt) ==
    Outcome(ii + 1, jj, rt, "loop",
            Step("advance_i", ii, jj, ii, jj, FALSE, {ii}, {jj}))

advance_j(ii, jj, rt) ==
    Outcome(ii, jj + 1, rt, "loop",
            Step("advance_j", ii, jj, ii, jj, FALSE, {ii}, {jj}))

(* One pass through the body of the while loop, lines 350-411.             *)
match_iteration(slf, oth, ii, jj, rt, pv) ==
    LET start_delta == Get(slf, ii).start - Get(oth, jj).start
        end_delta == Get(slf, ii).end - Get(oth, jj).end
    IN  IF Abs(start_delta) <= T
        THEN IF Abs(end_delta) <= T
             THEN one_to_one(slf, oth, ii, jj, rt)
             ELSE IF end_delta > T
             THEN one_to_many(slf, oth, ii, jj, rt, pv)
             ELSE IF end_delta < 0 - T
             THEN many_to_one(slf, oth, ii, jj, rt, pv)
             ELSE Outcome(ii, jj, rt, "loop",
                          Step("fall_through", ii, jj, ii, jj, FALSE,
                               {ii}, {jj}))
        ELSE IF start_delta < 0 - T
             THEN advance_i(ii, jj, rt)
             ELSE advance_j(ii, jj, rt)

(* The loop test of line 348.                                              *)
loop_test(slf, oth, ii, jj) == ii < Len(slf) /\ jj < Len(oth)


(* Lines 413-414: Counter over the keys of every merged record, and the    *)
(* keys counted in more than len(ret)/10 records.                          *)
Counter(rt) ==
    LET keys == UNION {DOMAIN rt[k].lang_map : k \in 1..Len(rt)}
    IN  [key \in keys |->
            Cardinality({k \in 1..Len(rt) : key \in DOMAIN rt[k].lang_map})]

DominantLangs(stat, rt) ==
    {key \in DOMAIN stat : stat[key] > Len(rt) \div 10}

(* match() run to its end as a function: the state after the loop.         *)
RECURSIVE match_run(_, _, _, _, _, _)
match_run(slf, oth, ii, jj, rt, pv) ==
    IF loop_test(slf, oth, ii, jj)
    THEN LET o == match_iteration(slf, oth, ii, jj, rt, pv)
         IN  IF o.pc = "loop"
             THEN match_run(slf, oth, o.i, o.j, o.ret, pv)
             ELSE o
    ELSE Outcome(ii, jj, rt, "done", NoStep)

(***************************************************************************)
(* match(): inputs.  Two tracks sorted by start, times on a 500 ms grid so *)
(* that differences below, at and above T all occur; record k of a track   *)
(* carries, for each language of the track, a text naming its origin.      *)
(***************************************************************************)
Times == {500 * k : k \in 0..MaxTick}

Windows == {w \in Times \X Times : w[1] < w[2]}

SortedWindows(n) ==
    {f \in [1..n -> Windows] : \A k \in 1..(n - 1) : f[k][1] <= f[k + 1][1]}

(* Record k of the self track is in English, every second one also in      *)
(* French; record k of the other track is in French, every second one also *)
(* in English: a one-to-one pair may share no, one or both languages.      *)
SelfKeys(k) == IF k % 2 = 0 THEN {"en"} ELSE {"en", "fr"}

OtherKeys(k) == IF k % 2 = 0 THEN {"fr"} ELSE {"fr", "en"}

SelfTrack(ws) ==
    [k \in 1..Len(ws) |->
        SubRipItem(ws[k][1], ws[k][2],
                   [key \in SelfKeys(k - 1) |-> "s" \o ToString(k - 1) \o key])]

OtherTrack(ws) ==
    [k \in 1..Len(ws) |->
        SubRipItem(ws[k][1], ws[k][2],
                   [key \in OtherKeys(k - 1) |-> "o" \o ToString(k - 1) \o key])]

(* The alignment scenario of the specification.                            *)
ScenarioSelf == <<SubRipItem(1000, 3000, [key \in {"en"} |-> "hi"])>>

ScenarioOther ==
    <<SubRipItem(1050, 1900, [key \in {"fr"} |-> "bonjour"]),
      SubRipItem(1950, 2950, [key \in {"fr"} |-> "monde"])>>

MatchSizes ==
    {nm \in (0..MaxLen) \X (0..MaxLen) : nm[1] + nm[2] <= MaxTotal}

MatchInputs ==
    {<<SelfTrack(w[1]), OtherTrack(w[2])>> :
        w \in UNION {SortedWindows(nm[1]) \X SortedWindows(nm[2]) :
                        nm \in MatchSizes}}
    \cup {<<ScenarioSelf, ScenarioOther>>, <<ScenarioOther, ScenarioSelf>>}

(***************************************************************************)
(* The state of the operations a behaviour does not exercise.              *)
(***************************************************************************)
ERROR_PASS == 0
ERROR_LOG == 1
ERROR_RAISE == 2

NoError == [name |-> "none", args |-> <<>>]

MatchIdle ==
    /\ self = <<>>
    /\ other = <<>>
    /\ i = 0
    /\ j = 0
    /\ ret = <<>>
    /\ lang_stat = <<>>
    /\ langs = {}
    /\ last = NoStep

StreamIdle ==
    /\ source_file = <<>>
    /\ index = 0
    /\ string_buffer = <<>>
    /\ yielded = <<>>
    /\ stderr = <<>>
    /\ error_handling = ERROR_PASS
    /\ raised = NoError

FileIdle ==
    /\ data = <<>>
    /\ _eol = <<>>
    /\ linesep = <<>>
    /\ eol = <<>>
    /\ output_file = <<>>
    /\ written = 0

NoCall == [name |-> "none"]

SliceIdle ==
    /\ heap = <<>>
    /\ subs = <<>>
    /\ clone = <<>>
    /\ call = NoCall
    /\ slices = <<>>
    /\ calls = 0

NoSource == [kind |-> "none", lines |-> <<>>, pos |-> 0]

ReadIdle ==
    /\ string_iterable = NoSource
    /\ before = <<>>
    /\ given = <<>>
    /\ history = <<>>

(***************************************************************************)
(* match(): the state machine.                                             *)
(***************************************************************************)
InitMatch ==
    /\ op = "match"
    /\ py \in PyVersions
    /\ \E inp \in MatchInputs : self = inp[1] /\ other = inp[2]
    /\ i = 0
    /\ j = 0
    /\ ret = <<>>
    /\ lang_stat = <<>>
    /\ langs = {}
    /\ pc = "loop"
    /\ last = NoStep
    /\ StreamIdle
    /\ FileIdle
    /\ SliceIdle
    /\ ReadIdle

(* One iteration of the while loop of line 348.                            *)
MatchIteration ==
    /\ pc = "loop"
    /\ loop_test(self, other, i, j)
    /\ LET o == match_iteration(self, other, i, j, ret, py)
       IN  /\ i' = o.i
           /\ j' = o.j
           /\ ret' = o.ret
           /\ pc' = o.pc
           /\ last' = o.last
    /\ UNCHANGED <<op, py, self, other, lang_stat, langs, streamVars,
                   fileVars, sliceVars, readVars>>

(* The loop test fails: lines 413-416.                                     *)
MatchReturn ==
    /\ pc = "loop"
    /\ ~loop_test(self, other, i, j)
    /\ lang_stat' = Counter(ret)
    /\ langs' = DominantLangs(Counter(ret), ret)
    /\ pc' = "done"
    /\ UNCHANGED <<op, py, self, other, i, j, ret, last, streamVars,
                   fileVars, sliceVars, readVars>>

NextMatch == MatchIteration \/ MatchReturn

SpecMatch == InitMatch /\ [][NextMatch]_vars


(***************************************************************************)
(* Text.  A string is a sequence of characters; the characters the code    *)
(* looks at are the line breaks and the blank, and the rest of a line is   *)
(* made of tokens: a rendered integer, a rendered timestamp, the arrow     *)
(* "-->" and words.                                                        *)
(***************************************************************************)
NL == [t |-> "\n"]

CR == [t |-> "\r"]

SP == [t |-> " "]

ARROW == [t |-> "-->"]

Word(w) == [t |-> "word", w |-> w]

IntToken(n) == [t |-> "int", n |-> n]

TimeToken(h, m, s, ms) == [t |-> "time", f |-> <<h, m, s, ms>>]

Whitespace == {NL, CR, SP}

(* The line breaks: "\n", "\r\n" and "\r".                                *)
Eols == {<<NL>>, <<CR, NL>>, <<CR>>}

RECURSIVE Concat(_)
Concat(strings) ==
    IF strings = <<>> THEN <<>> ELSE Head(strings) \o Concat(Tail(strings))

(* sep.join(strings)                                                       *)
RECURSIVE Join(_, _)
Join(strings, sep) ==
    IF strings = <<>> THEN <<>>
    ELSE IF Len(strings) = 1 THEN strings[1]
    ELSE strings[1] \o sep \o Join(Tail(strings), sep)

(* line.strip() is a non-empty string.                                     *)
strip_is_true(line) == \E k \in 1..Len(line) : line[k] \notin Whitespace

(* line without its trailing line break.                                   *)
RECURSIVE StripEol(_)
StripEol(line) ==
    IF line # <<>> /\ line[Len(line)] \in {NL, CR}
    THEN StripEol(SubSeq(line, 1, Len(line) - 1))
    ELSE line

(***************************************************************************)
(* SubRipTime and SubRipItem, as the specification describes them: the     *)
(* timestamp H+:MM:SS,mmm, and the block of an index line, a line          *)
(* "start --> end" and the text lines.                                     *)
(***************************************************************************)
FormatTime(ordinal) ==
    TimeToken(ordinal \div 3600000, (ordinal \div 60000) % 60,
              (ordinal \div 1000) % 60, ordinal % 1000)

TimeTokenOk(tok) ==
    /\ tok.t = "time"
    /\ tok.f[1] >= 0
    /\ tok.f[2] \in 0..99
    /\ tok.f[3] \in 0..99
    /\ tok.f[4] \in 0..999

ParseTime(tok) ==
    ((tok.f[1] * 60 + tok.f[2]) * 60 + tok.f[3]) * 1000 + tok.f[4]

Item(idx, start, end, text) ==
    [index |-> idx, start |-> start, end |-> end, text |-> text]

FormatError == [name |-> "FormatError", args |-> <<>>]

Parsed(item) == [ok |-> TRUE, item |-> item, error |-> NoError]

Failed(error) == [ok |-> FALSE, item |-> Item(0, 0, 0, <<>>), error |-> error]

(* The line "start --> end", the blanks around the arrow optional.         *)
TimesOfLine(line) ==
    LET toks == SelectSeq(line, LAMBDA c : c # SP)
    IN  IF /\ Len(toks) = 3
           /\ toks[2] = ARROW
           /\ TimeTokenOk(toks[1])
           /\ TimeTokenOk(toks[3])
        THEN <<ParseTime(toks[1]), ParseTime(toks[3])>>
        ELSE <<>>

(* SubRipItem.from_lines(source)                                           *)
from_lines(source) ==
    LET lines == [k \in 1..Len(source) |-> StripEol(source[k])]
    IN  IF Len(lines) < 2 THEN Failed(FormatError)
        ELSE IF ~ (Len(lines[1]) = 1 /\ lines[1][1].t = "int")
        THEN Failed(FormatError)
        ELSE IF TimesOfLine(lines[2]) = <<>> THEN Failed(FormatError)
        ELSE Parsed(Item(lines[1][1].n,
                         TimesOfLine(lines[2])[1], TimesOfLine(lines[2])[2],
                         Join(SubSeq(lines, 3, Len(lines)), <<NL>>)))

(***************************************************************************)
(* stream() and _handle_error()                                            *)
(***************************************************************************)
Written(w, name, idx, text) ==
    [w |-> w, name |-> name, index |-> idx, text |-> text]

Handled(p, error, writes) == [pc |-> p, raised |-> error, writes |-> writes]

(* An argument of an exception: an integer or a string.                    *)
IntArg(n) == [k |-> "int", n |-> n, text |-> <<>>]

StrArg(text) == [k |-> "str", n |-> 0, text |-> text]

(* A variant of raise_args that counts lines from one.                     *)
raise_args_one_based(idx, args) == <<IntArg(idx + 1)>> \o args

(* Line 328: the index is put before the arguments the error has.          *)
raise_args(idx, args) == <<IntArg(idx)>> \o args

(* _handle_error(error, error_handling, index), lines 326-334.  On line    *)
(* 333 encode() gives a byte string: Python 2's sys.stderr takes it,       *)
(* Python 3's raises TypeError.                                            *)
handle_error(error, policy, idx, pv) ==
    IF policy = ERROR_RAISE
    THEN Handled("raised",
                 [name |-> error.name, args |-> raise_args(idx, error.args)],
                 <<>>)
    ELSE IF policy = ERROR_LOG
    THEN IF pv = 2
         THEN Handled("run", NoError,
                      <<Written("header", error.name, idx, <<>>),
                        Written("text", "", 0, error.args[1].text),
                        Written("newline", "", 0, <<>>)>>)
         ELSE Handled("raised", [name |-> "TypeError", args |-> <<>>],
                      <<Written("header", error.name, idx, <<>>)>>)
    ELSE Handled("run", NoError, <<>>)

(* A variant of emptied that keeps the lines of a block that was tried.    *)
emptied_kept(buffer) == buffer

(* Line 231: the accumulator after a blank line.                           *)
emptied(buffer) == <<>>

(* Line 232: the block is tried when `source and all(source)`.             *)
block_is_tried(source) ==
    source # <<>> /\ \A k \in 1..Len(source) : source[k] # <<>>

StreamOutcome(buffer, items, h) ==
    [string_buffer |-> buffer, yielded |-> items, pc |-> h.pc,
     raised |-> h.raised, writes |-> h.writes]

(* One pass through the body of the for loop, lines 227-237, for the line  *)
(* numbered idx.                                                           *)
stream_line(line, idx, buffer, policy, pv) ==
    IF strip_is_true(line)
    THEN StreamOutcome(Append(buffer, line), <<>>,
                       Handled("run", NoError, <<>>))
    ELSE LET source == buffer
         IN  IF block_is_tried(source)
             THEN IF from_lines(source).ok
                  THEN StreamOutcome(emptied(buffer),
                                     <<from_lines(source).item>>,
                                     Handled("run", NoError, <<>>))
                  ELSE LET error == from_lines(source).error
                           augmented ==
                               [name |-> error.name,
                                args |-> error.args
                                             \o <<StrArg(Concat(source))>>]
                       IN  StreamOutcome(
                               emptied(buffer), <<>>,
                               handle_error(augmented, policy, idx, pv))
             ELSE StreamOutcome(emptied(buffer), <<>>,
                                Handled("run", NoError, <<>>))

(* A variant of Chained with two line breaks after the lines.              *)
chained_twice(lines) == lines \o <<<<NL>>, <<NL>>>>

(* chain(source_file, '\n'): the lines and one more, a line break.         *)
Chained(lines) == Append(lines, <<NL>>)

(***************************************************************************)
(* stream(): inputs.  Up to MaxBlocks blocks, each one of a few shapes,    *)
(* well-formed or not, with `gap` blank lines between two blocks, `lead`   *)
(* blank lines before the first, and the last line followed by a blank     *)
(* line, by its line break only, or by nothing.                            *)
(***************************************************************************)
MaxBlocks == 3

IntLine(n) == <<IntToken(n), NL>>

TimeLine(start, end) ==
    <<FormatTime(start), SP, ARROW, SP, FormatTime(end), NL>>

TextLine(w) == <<Word(w), NL>>

BlockHello == <<IntLine(1), TimeLine(1000, 2000), TextLine("Hello")>>

BlockWorld == <<IntLine(2), TimeLine(3000, 4000), TextLine("World")>>

BlockTwoLines ==
    <<IntLine(3), TimeLine(3723004, 3725000), TextLine("a"), TextLine("b")>>

BlockBad == <<TextLine("BAD")>>

BlockNoTimes == <<IntLine(5), TextLine("Hello")>>

BlockShapes ==
    {BlockHello, BlockWorld, BlockTwoLines, BlockBad, BlockNoTimes}

BlankLines(n) == [k \in 1..n |-> IF k % 2 = 1 THEN <<NL>> ELSE <<SP, NL>>]

RECURSIVE JoinBlocks(_, _)
JoinBlocks(blocks, gap) ==
    IF blocks = <<>> THEN <<>>
    ELSE IF Len(blocks) = 1 THEN blocks[1]
    ELSE blocks[1] \o BlankLines(gap) \o JoinBlocks(Tail(blocks), gap)

Ending(lines, tail) ==
    IF tail = "blank" \/ lines = <<>> THEN lines \o BlankLines(1)
    ELSE IF tail = "eol" THEN lines
    ELSE SubSeq(lines, 1, Len(lines) - 1) \o <<StripEol(lines[Len(lines)])>>

StreamInputs ==
    {BlankLines(p[2]) \o Ending(JoinBlocks(p[1], p[3]), p[4]) :
        p \in (UNION {[1..n -> BlockShapes] : n \in 0..MaxBlocks})
                 \X (0..1) \X (1..2) \X {"blank", "eol", "none"}}

(***************************************************************************)
(* stream(): the state machine.  The generator is driven to its end.       *)
(***************************************************************************)
InitStream ==
    /\ op = "stream"
    /\ py \in PyVersions
    /\ pc = "run"
    /\ source_file \in StreamInputs
    /\ index = 0
    /\ string_buffer = <<>>
    /\ yielded = <<>>
    /\ stderr = <<>>
    /\ error_handling \in {ERROR_PASS, ERROR_LOG, ERROR_RAISE}
    /\ raised = NoError
    /\ MatchIdle
    /\ FileIdle
    /\ SliceIdle
    /\ ReadIdle

(* The for loop of line 226 takes the next line and runs its body.         *)
StreamLine ==
    /\ pc = "run"
    /\ index < Len(Chained(source_file))
    /\ LET o == stream_line(Chained(source_file)[index + 1], index,
                            string_buffer, error_handling, py)
       IN  /\ string_buffer' = o.string_buffer
           /\ yielded' = yielded \o o.yielded
           /\ stderr' = stderr \o o.writes
           /\ pc' = o.pc
           /\ raised' = o.raised
    /\ index' = index + 1
    /\ UNCHANGED <<op, py, source_file, error_handling, matchVars, fileVars,
                   sliceVars, readVars>>

(* chain(source_file, '\n') is exhausted: the generator returns.           *)
StreamStop ==
    /\ pc = "run"
    /\ index = Len(Chained(source_file))
    /\ pc' = "exhausted"
    /\ UNCHANGED <<op, py, matchVars, streamVars, fileVars, sliceVars, readVars>>

NextStream == StreamLine \/ StreamStop

(* stream() driven to its end as a function: the state it ends in.         *)
RECURSIVE stream_run(_, _, _, _, _, _)
stream_run(lines, idx, buffer, items, policy, pv) ==
    IF idx < Len(Chained(lines))
    THEN LET o == stream_line(Chained(lines)[idx + 1], idx, buffer, policy, pv)
         IN  IF o.pc = "run"
             THEN stream_run(lines, idx + 1, o.string_buffer,
                             items \o o.yielded, policy, pv)
             ELSE [pc |-> o.pc, yielded |-> items \o o.yielded]
    ELSE [pc |-> "exhausted", yielded |-> items]

SpecStream == InitStream /\ [][NextStream]_vars

(***************************************************************************)
(* write_into()                                                            *)
(***************************************************************************)
(* str(item): the index, the times and the text, each ended by "\n".       *)
item_str(item) ==
    <<IntToken(item.index), NL>>
        \o <<FormatTime(item.start), SP, ARROW, SP, FormatTime(item.end), NL>>
        \o item.text \o <<NL>>

(* string.replace('\n', new)                                               *)
RECURSIVE replace_newline(_, _)
replace_newline(string, new) ==
    IF string = <<>> THEN <<>>
    ELSE (IF Head(string) = NL THEN new ELSE <<Head(string)>>)
             \o replace_newline(Tail(string), new)

endswith(string, suffix) ==
    /\ Len(suffix) <= Len(string)
    /\ SubSeq(string, Len(string) - Len(suffix) + 1, Len(string)) = suffix

(* Lines 60-61: the eol property.                                          *)
get_eol(own, sep) == IF own # <<>> THEN own ELSE sep

(* Line 263                                                                *)
output_eol(arg, own, sep) == IF arg # <<>> THEN arg ELSE get_eol(own, sep)

(* A variant of trailing_eol that tests for one line break only.           *)
trailing_eol_single(string_repr, out_eol) ==
    IF ~endswith(string_repr, out_eol) THEN out_eol ELSE <<>>

(* Lines 274-275: what follows the item's text.                            *)
trailing_eol(string_repr, out_eol) ==
    IF ~endswith(string_repr, out_eol \o out_eol) THEN out_eol ELSE <<>>

(* A variant of write_item that leaves the line breaks of str(item).       *)
write_item_unreplaced(item, out_eol) ==
    item_str(item) \o trailing_eol(item_str(item), out_eol)

(* Lines 266-275: what the loop writes for one item.                       *)
write_item(item, out_eol) ==
    LET string_repr ==
            IF out_eol # <<NL>>
            THEN replace_newline(item_str(item), out_eol)
            ELSE item_str(item)
    IN  string_repr \o trailing_eol(string_repr, out_eol)

(* string.splitlines(True): the lines with their line breaks, a line       *)
(* ending at "\r\n", "\r" or "\n".                                         *)
RECURSIVE splitlines_from(_, _)
splitlines_from(string, line) ==
    IF string = <<>> THEN (IF line = <<>> THEN <<>> ELSE <<line>>)
    ELSE IF Head(string) = NL
    THEN <<Append(line, NL)>> \o splitlines_from(Tail(string), <<>>)
    ELSE IF Head(string) = CR
    THEN IF Len(string) >= 2 /\ string[2] = NL
         THEN <<line \o <<CR, NL>>>>
                  \o splitlines_from(Tail(Tail(string)), <<>>)
         ELSE <<Append(line, CR)>> \o splitlines_from(Tail(string), <<>>)
    ELSE splitlines_from(Tail(string), Append(line, Head(string)))

splitlines(string) == splitlines_from(string, <<>>)

(***************************************************************************)
(* write_into() and a parse of what it wrote: inputs.  Up to MaxItems      *)
(* items; a text is one line, two lines, two lines around an empty line,   *)
(* empty, or one line with its line break.                                 *)
(***************************************************************************)
(* slice() and at()                                                        *)
(*                                                                         *)
(* A time argument is None or a value coercible to SubRipTime: an int of   *)
(* milliseconds, a tuple (h, m, s, ms), or a dict of components, possibly  *)
(* the empty dict.  ms is the ordinal the value coerces to.                *)
(***************************************************************************)
None == [form |-> "None", ms |-> 0]

EmptyDict == [form |-> "empty_dict", ms |-> 0]

(* Python's truth value of an argument, as tested in lines 87-94 and 114.  *)
truth(value) ==
    CASE value.form = "None" -> FALSE
      [] value.form = "int" -> value.ms # 0
      [] value.form = "tuple" -> TRUE
      [] value.form = "dict" -> TRUE
      [] value.form = "empty_dict" -> FALSE

(* SubRipTime.coerce: the ordinal of a time argument.                      *)
coerce(value) == value.ms

(* Lines 85-98: the data of the clone.                                     *)
slice(recs, seq, starts_before, starts_after, ends_before, ends_after) ==
    LET StartsBefore(id) == recs[id].start < coerce(starts_before)
        StartsAfter(id) == recs[id].start > coerce(starts_after)
        EndsBefore(id) == recs[id].end < coerce(ends_before)
        EndsAfter(id) == recs[id].end > coerce(ends_after)
        d1 == IF truth(starts_before) THEN SelectSeq(seq, StartsBefore) ELSE seq
        d2 == IF truth(starts_after) THEN SelectSeq(d1, StartsAfter) ELSE d1
        d3 == IF truth(ends_before) THEN SelectSeq(d2, EndsBefore) ELSE d2
        d4 == IF truth(ends_after) THEN SelectSeq(d3, EndsAfter) ELSE d3
    IN  d4

(* Line 114: time = timestamp or kwargs                                    *)
at_time(timestamp, kwargs) == IF truth(timestamp) THEN timestamp ELSE kwargs

(* Lines 114-115                                                           *)
at(recs, seq, timestamp, kwargs) ==
    slice(recs, seq, at_time(timestamp, kwargs), None, None,
          at_time(timestamp, kwargs))

(***************************************************************************)
(* slice() and at(): inputs.  Up to MaxSubs items with times among         *)
(* SliceTimes, held in any order; the arguments are None or name a time    *)
(* among BoundTimes in one of the coercible forms.                         *)
(***************************************************************************)
MaxSubs == 2

SliceTimes == {0, 500, 1000}

BoundTimes == {0, 500}

TimeArgs ==
    [form : {"int", "tuple", "dict"}, ms : BoundTimes] \cup {EmptyDict}

Kwargs == [form : {"dict"}, ms : BoundTimes] \cup {EmptyDict}

SliceItems ==
    {[index |-> n, start |-> w[1], end |-> w[2]] :
        n \in {1}, w \in {w \in SliceTimes \X SliceTimes : w[1] < w[2]}}

Orders(n) ==
    {f \in [1..n -> 1..n] : \A a, b \in 1..n : a # b => f[a] # f[b]}

InitSlice ==
    /\ op = "slice"
    /\ py \in PyVersions
    /\ pc = "ready"
    /\ \E n \in 0..MaxSubs :
        /\ heap \in [1..n -> SliceItems]
        /\ subs \in Orders(n)
    /\ clone = <<>>
    /\ call = NoCall
    /\ slices = <<>>
    /\ calls = 0
    /\ MatchIdle
    /\ StreamIdle
    /\ FileIdle
    /\ ReadIdle

(* A call of slice() on the collection.                                    *)
Slice ==
    /\ pc = "ready"
    /\ \E starts_before, starts_after, ends_before, ends_after
              \in {None} \cup TimeArgs :
        /\ call' = [name |-> "slice",
                    starts_before |-> starts_before,
                    starts_after |-> starts_after,
                    ends_before |-> ends_before,
                    ends_after |-> ends_after]
        /\ clone' = slice(heap, subs, starts_before, starts_after,
                          ends_before, ends_after)
    /\ pc' = "returned"
    /\ UNCHANGED <<op, py, heap, subs, slices, calls, matchVars, streamVars,
                   fileVars, readVars>>

(* A call of at() on the collection, with a timestamp, with keyword        *)
(* arguments or with neither.                                              *)
At ==
    /\ pc = "ready"
    /\ \E timestamp \in {None} \cup TimeArgs, kwargs \in Kwargs :
        /\ timestamp = None \/ kwargs = EmptyDict
        /\ call' = [name |-> "at", timestamp |-> timestamp,
                    kwargs |-> kwargs]
        /\ clone' = at(heap, subs, timestamp, kwargs)
    /\ pc' = "returned"
    /\ UNCHANGED <<op, py, heap, subs, slices, calls, matchVars, streamVars,
                   fileVars, readVars>>

NextSlice == Slice \/ At

SpecSlice == InitSlice /\ [][NextSlice]_vars

(***************************************************************************)
(* shift() and clean_indexes(), on a collection and on its slices.  The    *)
(* items live in heap; a collection's data is a sequence of identities,    *)
(* so that a slice shares its items with the collection it was cut from.   *)
(***************************************************************************)
Ids(seq) == {seq[k] : k \in 1..Len(seq)}

(* SubRipTime.shift: ordinal * ratio + offset.                             *)
shift_time(ordinal, how) == ordinal * how.ratio + how.offset

(* SubRipItem.shift: start and end are shifted in place.                   *)
shift_item(item, how) ==
    [item EXCEPT !.start = shift_time(item.start, how),
                 !.end = shift_time(item.end, how)]

(* A variant of shift that goes through every item there is.               *)
shift_every_item(recs, seq, how) ==
    [id \in DOMAIN recs |-> shift_item(recs[id], how)]

(* Lines 131-132: every item of the collection is shifted.                 *)
shift(recs, seq, how) ==
    [id \in DOMAIN recs |->
        IF id \in Ids(seq) THEN shift_item(recs[id], how) ELSE recs[id]]

(* SubRipItem's order: by (start, end).                                    *)
item_lt(a, b) == a.start < b.start \/ (a.start = b.start /\ a.end < b.end)

(* A variant of insort that puts an item before the items equal to it.     *)
RECURSIVE insort_before_equal(_, _, _)
insort_before_equal(recs, sorted, id) ==
    IF sorted = <<>> THEN <<id>>
    ELSE IF ~item_lt(recs[Head(sorted)], recs[id])
    THEN <<id>> \o sorted
    ELSE <<Head(sorted)>> \o insort_before_equal(recs, Tail(sorted), id)

(* list.sort() is stable: an item goes after the items not greater than    *)
(* it that came before it.                                                 *)
RECURSIVE insort(_, _, _)
insort(recs, sorted, id) ==
    IF sorted = <<>> THEN <<id>>
    ELSE IF item_lt(recs[id], recs[Head(sorted)])
    THEN <<id>> \o sorted
    ELSE <<Head(sorted)>> \o insort(recs, Tail(sorted), id)

(* Line 141: self.sort()                                                   *)
RECURSIVE sort(_, _, _)
sort(recs, seq, sorted) ==
    IF seq = <<>> THEN sorted
    ELSE sort(recs, Tail(seq), insort(recs, sorted, Head(seq)))

Position(seq, id) == CHOOSE k \in 1..Len(seq) : seq[k] = id

(* A variant of reindexed that numbers the items from zero.                *)
reindexed_from_zero(recs, seq) ==
    [id \in DOMAIN recs |->
        IF id \in Ids(seq)
        THEN [recs[id] EXCEPT !.index = Position(seq, id) - 1]
        ELSE recs[id]]

(* Lines 142-143: item.index = index + 1; Position is the 1-based place.   *)
reindexed(recs, seq) ==
    [id \in DOMAIN recs |->
        IF id \in Ids(seq)
        THEN [recs[id] EXCEPT !.index = Position(seq, id)]
        ELSE recs[id]]

(***************************************************************************)
(* Calls on a collection and its slices: inputs.  Up to MaxSubs items, up  *)
(* to MaxSlices slices and MaxCalls calls; target 0 is the collection,     *)
(* target k its k-th slice.                                                *)
(***************************************************************************)
MaxSlices == 2

MaxCalls == 3

FrameItems ==
    {[index |-> n, start |-> w[1], end |-> w[2]] :
        n \in {1, 7}, w \in {w \in SliceTimes \X SliceTimes : w[1] < w[2]}}

FrameBounds == {None, [form |-> "int", ms |-> 500]}

ShiftArgs ==
    {[offset |-> 500, ratio |-> 1], [offset |-> 0 - 500, ratio |-> 1],
     [offset |-> 0, ratio |-> 2]}

DataOf(target) == IF target = 0 THEN subs ELSE slices[target]

(* The call before: its name and its target, -1 when there was none.       *)
Before == [name |-> call.name,
           target |-> IF call.name = "none" THEN 0 - 1 ELSE call.target]

InitFrame ==
    /\ op = "frame"
    /\ py \in PyVersions
    /\ pc = "ready"
    /\ \E n \in 0..MaxSubs :
        /\ heap \in [1..n -> FrameItems]
        /\ subs \in Orders(n)
    /\ clone = <<>>
    /\ call = NoCall
    /\ slices = <<>>
    /\ calls = 0
    /\ MatchIdle
    /\ StreamIdle
    /\ FileIdle
    /\ ReadIdle

(* slice() on the collection or on one of its slices.                      *)
FrameSlice ==
    /\ pc = "ready"
    /\ calls < MaxCalls
    /\ Len(slices) < MaxSlices
    /\ \E target \in 0..Len(slices) :
       \E starts_before, starts_after, ends_before, ends_after
              \in FrameBounds :
        /\ clone' = slice(heap, DataOf(target), starts_before, starts_after,
                          ends_before, ends_after)
        /\ slices' = Append(slices, clone')
        /\ call' = [name |-> "slice", target |-> target, before |-> Before]
    /\ calls' = calls + 1
    /\ UNCHANGED <<op, py, pc, heap, subs, matchVars, streamVars, fileVars,
                   readVars>>

(* shift() on the collection or on one of its slices.                      *)
FrameShift ==
    /\ pc = "ready"
    /\ calls < MaxCalls
    /\ \E target \in 0..Len(slices), how \in ShiftArgs :
        /\ heap' = shift(heap, DataOf(target), how)
        /\ call' = [name |-> "shift", target |-> target, how |-> how,
                    before |-> Before]
    /\ calls' = calls + 1
    /\ UNCHANGED <<op, py, pc, subs, clone, slices, matchVars, streamVars,
                   fileVars, readVars>>

(* clean_indexes() on the collection or on one of its slices.              *)
FrameCleanIndexes ==
    /\ pc = "ready"
    /\ calls < MaxCalls
    /\ \E target \in 0..Len(slices) :
        LET sorted == sort(heap, DataOf(target), <<>>)
        IN  /\ subs' = IF target = 0 THEN sorted ELSE subs
            /\ slices' = IF target = 0 THEN slices
                         ELSE [slices EXCEPT ![target] = sorted]
            /\ heap' = reindexed(heap, sorted)
            /\ call' = [name |-> "clean_indexes", target |-> target,
                        before |-> Before]
    /\ calls' = calls + 1
    /\ UNCHANGED <<op, py, pc, clone, matchVars, streamVars, fileVars, readVars>>

NextFrame == FrameSlice \/ FrameShift \/ FrameCleanIndexes

SpecFrame == InitFrame /\ [][NextFrame]_vars

(***************************************************************************)
(* read(), _guess_eol() and the eol property                               *)
(*                                                                         *)
(* A source is a list of lines, a file that can tell() and seek(), or an   *)
(* iterator that can do neither; pos is the number of lines taken from it. *)
(***************************************************************************)
(* _get_first_line, lines 286-297: next(iter(string_iterable)), '' when    *)
(* there is no line; iter(list) starts a new pass over the list, a file is *)
(* put back by seek(), an iterator has given its first line away.          *)
get_first_line(src) ==
    [line |-> IF src.pos < Len(src.lines) THEN src.lines[src.pos + 1]
              ELSE <<>>,
     pos |-> IF src.kind = "iterator" /\ src.pos < Len(src.lines)
             THEN src.pos + 1
             ELSE src.pos]

(* _guess_eol, lines 279-283                                               *)
guess_eol(first_line, sep) ==
    IF endswith(first_line, <<CR, NL>>) THEN <<CR, NL>>
    ELSE IF endswith(first_line, <<CR>>) THEN <<CR>>
    ELSE IF endswith(first_line, <<NL>>) THEN <<NL>>
    ELSE sep

(* A variant of set_eol that stores what it is given.                      *)
set_eol_overwriting(own, value) == value

(* _set_eol, line 64: self._eol = self._eol or eol                         *)
set_eol(own, value) == IF own # <<>> THEN own ELSE value

(***************************************************************************)
(* read() and eol assignments: inputs.  Up to MaxEvents calls of read()    *)
(* and assignments to eol, on a collection constructed with or without an  *)
(* eol; a source has zero, one or two blocks, its lines ended by one of    *)
(* the line breaks or by none.                                             *)
(***************************************************************************)
MaxEvents == 2

with_eol(lines, e) == [k \in 1..Len(lines) |-> StripEol(lines[k]) \o e]

ReadTexts ==
    {<<>>, BlockHello, BlockHello \o BlankLines(1) \o BlockWorld}

ReadSources ==
    {[kind |-> k, lines |-> with_eol(t, e), pos |-> 0] :
        k \in {"list", "file", "iterator"}, t \in ReadTexts,
        e \in Eols \cup {<<>>}}

Event(name, value) == [name |-> name, value |-> value]

InitRead ==
    /\ op = "read"
    /\ py \in PyVersions
    /\ pc = "ready"
    /\ given \in {<<>>} \cup Eols
    /\ _eol = given
    /\ linesep \in {<<NL>>, <<CR, NL>>}
    /\ data = <<>>
    /\ eol = <<>>
    /\ output_file = <<>>
    /\ written = 0
    /\ string_iterable = NoSource
    /\ before = <<>>
    /\ history = <<>>
    /\ MatchIdle
    /\ StreamIdle
    /\ SliceIdle

(* Lines 202-203: the eol is guessed and assigned, and stream() is given   *)
(* the source as _guess_eol left it.                                       *)
ReadCall ==
    /\ pc = "ready"
    /\ Len(history) < MaxEvents
    /\ \E src \in ReadSources :
        LET first == get_first_line(src)
            guess == guess_eol(first.line, linesep)
        IN  /\ string_iterable' = [src EXCEPT !.pos = first.pos]
            /\ _eol' = set_eol(_eol, guess)
            /\ history' = Append(history, Event("read", guess))
            /\ source_file' = SubSeq(src.lines, first.pos + 1, Len(src.lines))
    /\ before' = data
    /\ index' = 0
    /\ string_buffer' = <<>>
    /\ yielded' = <<>>
    /\ pc' = "run"
    /\ UNCHANGED <<op, py, stderr, error_handling, raised, data, linesep, eol,
                   output_file, written, given, matchVars, sliceVars>>

(* Lines 203-204: the items stream() yielded have been appended.           *)
ReadReturn ==
    /\ op = "read"
    /\ pc = "exhausted"
    /\ data' = data \o yielded
    /\ string_iterable' =
           [string_iterable EXCEPT
               !.pos = IF string_iterable.kind = "list" THEN 0
                       ELSE Len(string_iterable.lines)]
    /\ pc' = "ready"
    /\ UNCHANGED <<op, py, _eol, linesep, eol, output_file, written, before,
                   given, history, matchVars, streamVars, sliceVars>>

(* collection.eol = value                                                  *)
AssignEol ==
    /\ op = "read"
    /\ pc = "ready"
    /\ Len(history) < MaxEvents
    /\ \E value \in Eols :
        /\ _eol' = set_eol(_eol, value)
        /\ history' = Append(history, Event("assign", value))
    /\ UNCHANGED <<op, py, pc, data, linesep, eol, output_file, written,
                   string_iterable, before, given, matchVars, streamVars,
                   sliceVars>>

NextRead == ReadCall \/ StreamLine \/ StreamStop \/ ReadReturn \/ AssignEol

SpecRead == InitRead /\ [][NextRead]_vars

(***************************************************************************)
MaxItems == 2

Texts ==
    {<<Word("a")>>,
     <<Word("a"), NL, Word("b")>>,
     <<Word("a"), NL, NL, Word("b")>>,
     <<>>,
     <<Word("a"), NL>>}

Items ==
    {Item(n, w[1], w[2], text) :
        n \in {1, 7}, w \in {<<0, 1000>>, <<3723004, 3725000>>},
        text \in Texts}

InitRoundTrip ==
    /\ op = "roundtrip"
    /\ py \in PyVersions
    /\ pc = "write"
    /\ data \in UNION {[1..n -> Items] : n \in 0..MaxItems}
    /\ _eol \in {<<>>, <<CR>>}
    /\ linesep \in {<<NL>>, <<CR, NL>>}
    /\ eol \in {<<>>} \cup Eols
    /\ output_file = <<>>
    /\ written = 0
    /\ MatchIdle
    /\ StreamIdle
    /\ SliceIdle
    /\ ReadIdle

(* The for loop of line 265 takes the next item and writes it.             *)
WriteItem ==
    /\ pc = "write"
    /\ written < Len(data)
    /\ output_file' = output_file
                          \o write_item(data[written + 1],
                                        output_eol(eol, _eol, linesep))
    /\ written' = written + 1
    /\ UNCHANGED <<op, py, pc, data, _eol, linesep, eol, matchVars, streamVars,
                   sliceVars, readVars>>

(* write_into() has returned; the text it wrote is split into lines and    *)
(* given to stream().                                                      *)
Reparse ==
    /\ pc = "write"
    /\ written = Len(data)
    /\ source_file' = splitlines(output_file)
    /\ pc' = "run"
    /\ UNCHANGED <<op, py, index, string_buffer, yielded, stderr,
                   error_handling, raised, matchVars, fileVars,
                   sliceVars, readVars>>

NextRoundTrip == WriteItem \/ Reparse \/ StreamLine \/ StreamStop

SpecRoundTrip == InitRoundTrip /\ [][NextRoundTrip]_vars

(* match() under a scheduler that keeps running the loop.                  *)
LiveSpecMatch == SpecMatch /\ WF_vars(NextMatch)

(***************************************************************************)
(* Properties of match().                                                  *)
(***************************************************************************)
Last(f) == f[Len(f)]

(* The pair the last iteration started from, and the run it grouped.       *)
LastSelf == Get(self, last.i0)

LastOther == Get(other, last.j0)

LastOtherBag == SubSeq(other, last.j0 + 1, last.gj + 1)

(* C1: a one-to-many iteration that emits, emits a record over the self    *)
(* record's window whose lang_map holds the self record's entries merged   *)
(* with the per-key concatenation of the grouped other records' entries;   *)
(* in particular the scenario of the specification returns the single      *)
(* record {1000, 3000, {en: hi, fr: bonjourmonde}}.                        *)
C1_OneToManyKeepsSelf ==
    /\ (last.branch = "one_to_many" /\ last.emitted) =>
          /\ Len(ret) >= 1
          /\ Last(ret) = SubRipItem(
                 LastSelf.start, LastSelf.end,
                 merge_dict(LastSelf.lang_map,
                            reduce_merge_dict(LangMaps(LastOtherBag))))
    /\ (pc = "done" /\ self = ScenarioSelf /\ other = ScenarioOther) =>
          ret = <<SubRipItem(1000, 3000,
                             [key \in {"en", "fr"} |->
                                 IF key = "en" THEN "hi" ELSE "bonjourmonde"])>>

(* C2: an iteration whose pair has starts and ends within T appends        *)
(* exactly one record, over the self record's window, whose lang_map has   *)
(* the union of the two key sets, self's value followed by other's for a   *)
(* shared key and the one value otherwise, and advances i and j by one.    *)
C2_OneToOne ==
    [][(/\ pc = "loop"
        /\ loop_test(self, other, i, j)
        /\ Abs(Get(self, i).start - Get(other, j).start) <= T
        /\ Abs(Get(self, i).end - Get(other, j).end) <= T)
       => LET a == Get(self, i)
              b == Get(other, j)
          IN  /\ Len(ret') = Len(ret) + 1
              /\ SubSeq(ret', 1, Len(ret)) = ret
              /\ Last(ret').start = a.start
              /\ Last(ret').end = a.end
              /\ DOMAIN Last(ret').lang_map
                     = (DOMAIN a.lang_map) \cup (DOMAIN b.lang_map)
              /\ \A key \in DOMAIN Last(ret').lang_map :
                    Last(ret').lang_map[key] =
                        IF key \notin DOMAIN b.lang_map THEN a.lang_map[key]
                        ELSE IF key \notin DOMAIN a.lang_map
                        THEN b.lang_map[key]
                        ELSE a.lang_map[key] \o b.lang_map[key]
              /\ i' = i + 1
              /\ j' = j + 1]_vars

(* C2's case: a one-to-one iteration has run on a pair with different      *)
(* windows, a shared language and a language only self has.                *)
C2_Witness ==
    /\ last.branch = "one_to_one"
    /\ LastSelf.start # LastOther.start
    /\ LastSelf.end # LastOther.end
    /\ (DOMAIN LastSelf.lang_map) \cap (DOMAIN LastOther.lang_map) # {}
    /\ (DOMAIN LastSelf.lang_map) \ (DOMAIN LastOther.lang_map) # {}

(* other.match(self), run to its end.                                      *)
Reverse == match_run(other, self, 0, 0, <<>>, py)

WindowsOf(rt) == {<<rt[k].start, rt[k].end>> : k \in 1..Len(rt)}

InOneTrackOnly(key) ==
    ~ (/\ \E k \in 1..Len(self) : key \in DOMAIN self[k].lang_map
       /\ \E k \in 1..Len(other) : key \in DOMAIN other[k].lang_map)

(* C3 as stated: self.match(other) and other.match(self) return the same   *)
(* set of windows, and records over the same window have equal lang_maps.  *)
C3_SameWindows ==
    pc = "done" =>
        /\ WindowsOf(ret) = WindowsOf(Reverse.ret)
        /\ \A k \in 1..Len(ret) : \A n \in 1..Len(Reverse.ret) :
              (ret[k].start = Reverse.ret[n].start
                    /\ ret[k].end = Reverse.ret[n].end)
                  => ret[k].lang_map = Reverse.ret[n].lang_map

(* C3, amended: when self.match(other) returns, other.match(self) returns  *)
(* as many records; the k-th records of the two end within T of each       *)
(* other, have the same languages, and the same text for every language    *)
(* that only one of the two tracks has.                                    *)
C3_Mirrored ==
    pc = "done" =>
        /\ Reverse.pc = "done"
        /\ Len(Reverse.ret) = Len(ret)
        /\ \A k \in 1..Len(ret) :
              /\ Abs(ret[k].end - Reverse.ret[k].end) <= T
              /\ DOMAIN ret[k].lang_map = DOMAIN Reverse.ret[k].lang_map
              /\ \A key \in DOMAIN ret[k].lang_map :
                    InOneTrackOnly(key) =>
                        ret[k].lang_map[key] = Reverse.ret[k].lang_map[key]

(* C3's case: both directions returned two or more records, over different *)
(* windows, one of them from a grouping branch.                            *)
C3_Witness ==
    /\ pc = "done"
    /\ Len(ret) >= 2
    /\ WindowsOf(ret) # WindowsOf(Reverse.ret)
    /\ last.branch \in {"one_to_many", "many_to_one"}
    /\ last.emitted

(* C4: i and j never decrease; an iteration that completes increases one   *)
(* of them; no index read is past the end of its collection; once the loop *)
(* test fails match() returns what it has merged; and the loop ends.       *)
C4_Progress ==
    /\ [][/\ i' >= i
          /\ j' >= j
          /\ (pc = "loop" /\ loop_test(self, other, i, j))
                => (pc' # "loop" \/ i' + j' > i + j)
          /\ (pc = "loop" /\ ~loop_test(self, other, i, j))
                => (pc' = "done" /\ ret' = ret)]_vars
    /\ [](/\ i \in 0..Len(self)
          /\ j \in 0..Len(other)
          /\ last.reads_self \subseteq 0..(Len(self) - 1)
          /\ last.reads_other \subseteq 0..(Len(other) - 1))
    /\ <>(pc # "loop")

(* C4's case: match() returned with one track exhausted and records of    *)
(* the other left over, after an iteration whose grouping loop moved j.    *)
C4_Witness ==
    /\ pc = "done"
    /\ j = Len(other)
    /\ i < Len(self)
    /\ last.branch = "one_to_many"
    /\ last.gj > last.j0

(* C5: the merged collection is in non-decreasing order of start.          *)
C5_RetSorted ==
    \A k \in 1..(Len(ret) - 1) : ret[k].start <= ret[k + 1].start

(* C5's case: a many-to-one emission follows an earlier emission with a    *)
(* different start.                                                        *)
C5_Witness ==
    /\ Len(ret) >= 2
    /\ last.branch = "many_to_one"
    /\ last.emitted
    /\ ret[Len(ret) - 1].start # Last(ret).start


(***************************************************************************)
(* Properties of stream().  The blocks of a source are its maximal runs of *)
(* lines that are not blank; a block's terminator is the line after it,    *)
(* numbered from 0 in chain(source_file, '\n').                            *)
(***************************************************************************)
BlockStarts(lines) ==
    {a \in 1..Len(lines) :
        strip_is_true(lines[a]) /\ (a = 1 \/ ~strip_is_true(lines[a - 1]))}

BlockEnd(lines, a) ==
    CHOOSE b \in a..Len(lines) :
        /\ \A k \in a..b : strip_is_true(lines[k])
        /\ b = Len(lines) \/ ~strip_is_true(lines[b + 1])

RECURSIVE BlocksFrom(_, _)
BlocksFrom(lines, a) ==
    LET later == {x \in BlockStarts(lines) : x >= a}
    IN  IF later = {} THEN <<>>
        ELSE LET first == CHOOSE x \in later : \A y \in later : x <= y
                 stop == BlockEnd(lines, first)
             IN  <<[lines |-> SubSeq(lines, first, stop), stop |-> stop]>>
                     \o BlocksFrom(lines, stop + 1)

Blocks == BlocksFrom(source_file, 1)

WellFormed(block) == from_lines(block.lines).ok

Malformed(block) == ~WellFormed(block)

ItemsOf(blocks) ==
    LET good == SelectSeq(blocks, WellFormed)
    IN  [k \in 1..Len(good) |-> from_lines(good[k].lines).item]

(* The blocks whose terminator has been taken.                             *)
BlocksSeen == SelectSeq(Blocks, LAMBDA b : b.stop < index)

(* The error policy scenario of the specification.                         *)
SampleLines ==
    BlockHello \o <<<<NL>>>> \o BlockBad \o <<<<NL>>>> \o BlockWorld
        \o <<<<NL>>>>

(* C6: under ERROR_PASS stream() never raises and writes nothing; at every *)
(* point it has yielded the items of the well-formed blocks whose          *)
(* terminator it has taken, in order, and nothing else; and the            *)
(* accumulator is empty after every blank line.                            *)
C6_PassPolicy ==
    error_handling = ERROR_PASS /\ op = "stream" =>
        /\ pc # "raised"
        /\ stderr = <<>>
        /\ yielded = ItemsOf(BlocksSeen)
        /\ (index > 0 /\ ~strip_is_true(Chained(source_file)[index]))
              => string_buffer = <<>>

(* C6's case: a run under ERROR_PASS ended on a source with a malformed    *)
(* block before a well-formed one, two blank lines in a row, and a last    *)
(* block that no blank line follows.                                       *)
C6_Witness ==
    /\ op = "stream"
    /\ error_handling = ERROR_PASS
    /\ pc = "exhausted"
    /\ \E k \in 1..(Len(Blocks) - 1) :
          Malformed(Blocks[k]) /\ WellFormed(Blocks[k + 1])
    /\ \E k \in 1..(Len(source_file) - 1) :
          ~strip_is_true(source_file[k]) /\ ~strip_is_true(source_file[k + 1])
    /\ WellFormed(Blocks[Len(Blocks)])
    /\ Blocks[Len(Blocks)].stop = Len(source_file)

FirstMalformed ==
    CHOOSE k \in 1..Len(Blocks) :
        Malformed(Blocks[k]) /\ \A n \in 1..(k - 1) : WellFormed(Blocks[n])

(* C7: under ERROR_RAISE stream() yields the items of the well-formed      *)
(* blocks before the first malformed block and then raises that block's    *)
(* format error, whose first argument is the index of the block's          *)
(* terminator and whose last argument is the block's text; on the sample   *)
(* of the specification that is one item and index 5.                      *)
C7_RaisePolicy ==
    error_handling = ERROR_RAISE /\ op = "stream" =>
        /\ pc = "run" => /\ \A k \in 1..Len(BlocksSeen) : WellFormed(BlocksSeen[k])
                         /\ yielded = ItemsOf(BlocksSeen)
        /\ pc = "exhausted" => /\ \A k \in 1..Len(Blocks) : WellFormed(Blocks[k])
                               /\ yielded = ItemsOf(Blocks)
        /\ pc = "raised" =>
              /\ \E k \in 1..Len(Blocks) : Malformed(Blocks[k])
              /\ yielded = ItemsOf(SubSeq(Blocks, 1, FirstMalformed - 1))
              /\ raised.name = "FormatError"
              /\ raised.args[1] = IntArg(Blocks[FirstMalformed].stop)
              /\ raised.args[Len(raised.args)]
                    = StrArg(Concat(Blocks[FirstMalformed].lines))
              /\ index = Blocks[FirstMalformed].stop + 1
        /\ (pc = "raised" /\ source_file = SampleLines) =>
              /\ yielded = <<Item(1, 1000, 2000, <<Word("Hello")>>)>>
              /\ raised.args[1] = IntArg(5)

(* C7's case: the sample of the specification has raised.                  *)
C7_Witness ==
    /\ op = "stream"
    /\ error_handling = ERROR_RAISE
    /\ pc = "raised"
    /\ source_file = SampleLines

(* C8: under ERROR_LOG stream() never raises, ends with the items it       *)
(* yields under ERROR_PASS, and at every point has written one diagnostic  *)
(* per malformed block whose terminator it has taken, with the error kind  *)
(* and the terminator's index, and nothing else.                           *)
C8_LogPolicy ==
    error_handling = ERROR_LOG /\ op = "stream" =>
        /\ pc # "raised"
        /\ pc \in {"exhausted", "raised"} =>
              yielded = stream_run(source_file, 0, <<>>, <<>>,
                                   ERROR_PASS, py).yielded
        /\ LET bad == SelectSeq(BlocksSeen, Malformed)
               headers == SelectSeq(stderr, LAMBDA w : w.w = "header")
           IN  /\ Len(headers) = Len(bad)
               /\ \A k \in 1..Len(bad) :
                     /\ headers[k].name = "FormatError"
                     /\ headers[k].index = bad[k].stop


(***************************************************************************)
(* Properties of write_into().                                             *)
(***************************************************************************)
(* The lines of a text, without their line breaks.                         *)
RECURSIVE TextLines(_, _)
TextLines(text, line) ==
    IF text = <<>> THEN <<line>>
    ELSE IF Head(text) = NL THEN <<line>> \o TextLines(Tail(text), <<>>)
    ELSE TextLines(Tail(text), Append(line, Head(text)))

(* A text that is empty or made of lines none of which is blank.           *)
NoBlankLine(text) ==
    text = <<>> \/
        \A k \in 1..Len(TextLines(text, <<>>)) :
            strip_is_true(TextLines(text, <<>>)[k])

(* C9 as stated: a parse of what write_into() wrote yields the items of    *)
(* the collection, whatever their text and the eol.                        *)
C9_RoundTrip ==
    (op = "roundtrip" /\ pc = "exhausted") => yielded = data

(* C9, amended: a parse of what write_into() wrote yields the items of the *)
(* collection when no text has a blank line or ends with a line break.     *)
C9_RoundTripNoBlankLine ==
    (/\ op = "roundtrip"
     /\ pc = "exhausted"
     /\ \A k \in 1..Len(data) : NoBlankLine(data[k].text))
        => yielded = data

(* C9's case: two items, one with a text of two lines and one with an      *)
(* empty text, written with "\r\n" and parsed back.                        *)
C9_Witness ==
    /\ op = "roundtrip"
    /\ pc = "exhausted"
    /\ Len(data) = 2
    /\ data[1].text = <<Word("a"), NL, Word("b")>>
    /\ data[2].text = <<>>
    /\ data[1].start = 3723004
    /\ output_eol(eol, _eol, linesep) = <<CR, NL>>
    /\ yielded = data

(***************************************************************************)
(* Properties of slice() and at().                                         *)
(***************************************************************************)
Supplied(value) == value.form # "None"

(* The item passes every comparison whose bound was supplied.              *)
Satisfies(id, sb, sa, eb, ea) ==
    /\ Supplied(sb) => heap[id].start < sb.ms
    /\ Supplied(sa) => heap[id].start > sa.ms
    /\ Supplied(eb) => heap[id].end < eb.ms
    /\ Supplied(ea) => heap[id].end > ea.ms

RECURSIVE Selected(_, _, _, _, _)
Selected(seq, sb, sa, eb, ea) ==
    IF seq = <<>> THEN <<>>
    ELSE (IF Satisfies(Head(seq), sb, sa, eb, ea)
          THEN <<Head(seq)>> ELSE <<>>)
             \o Selected(Tail(seq), sb, sa, eb, ea)

(* The time at() was called with: the timestamp, or the keyword arguments. *)
AtTime == IF Supplied(call.timestamp) THEN call.timestamp ELSE call.kwargs

(* C10 as stated: slice() returns, in the original order, exactly the      *)
(* items that satisfy every supplied strict comparison, a bound of time    *)
(* zero included, and at(t) exactly the items with start < t and end > t.  *)
C10_SliceSelection ==
    /\ (op = "slice" /\ call.name = "slice") =>
           clone = Selected(subs, call.starts_before, call.starts_after,
                            call.ends_before, call.ends_after)
    /\ (op = "slice" /\ call.name = "at") =>
           clone = Selected(subs, AtTime, None, None, AtTime)

(***************************************************************************)
(* Properties of shift() and clean_indexes() on shared items.              *)
(***************************************************************************)
(* The step is a call of the given name.                                   *)
Calls(name) == op = "frame" /\ calls' = calls + 1 /\ call'.name = name

DataOfNext(target) == IF target = 0 THEN subs' ELSE slices'[target]

(* a holds items of b only, in the order b holds them.                     *)
CutFrom(a, b) ==
    /\ Ids(a) \subseteq Ids(b)
    /\ \A x, y \in 1..Len(a) :
           x < y => Position(b, a[x]) < Position(b, a[y])

(* C11: a shift() of a collection changes the start and end of exactly the *)
(* items that collection holds, whichever collections share them, and      *)
(* leaves every other item as it was; slice() changes no item; neither     *)
(* changes which items the collection and the earlier slices hold, nor     *)
(* their order, and a slice holds items of its source in their order.      *)
C11_ShiftFrame ==
    [][/\ Calls("shift") =>
            /\ \A id \in DOMAIN heap :
                   heap'[id] =
                       IF id \in Ids(DataOf(call'.target))
                       THEN [index |-> heap[id].index,
                             start |-> heap[id].start * call'.how.ratio
                                           + call'.how.offset,
                             end |-> heap[id].end * call'.how.ratio
                                         + call'.how.offset]
                       ELSE heap[id]
            /\ subs' = subs
            /\ slices' = slices
       /\ Calls("slice") =>
            /\ heap' = heap
            /\ subs' = subs
            /\ Len(slices') = Len(slices) + 1
            /\ SubSeq(slices', 1, Len(slices)) = slices
            /\ CutFrom(slices'[Len(slices')], DataOf(call'.target))]_vars

(* C11's case: a slice that holds one of the collection's two items has    *)
(* been shifted by 500 ms: that item has moved in the collection too, the  *)
(* other has not.                                                          *)
C11_Witness ==
    /\ op = "frame"
    /\ call.name = "shift"
    /\ call.target = 1
    /\ call.how = [offset |-> 500, ratio |-> 1]
    /\ call.before = [name |-> "slice", target |-> 0]
    /\ Len(subs) = 2
    /\ slices = <<<<2>>>>
    /\ heap[2].start = 1000 /\ heap[2].end = 1500
    /\ heap[1].start = 0 /\ heap[1].end = 500

(* C12: after clean_indexes() the collection holds the items it held, in   *)
(* non-decreasing order of (start, end), and the item at position k        *)
(* (0-based) has index k + 1; no start or end has changed.                 *)
C12_CleanIndexes ==
    [][Calls("clean_indexes") =>
           LET was == DataOf(call'.target)
               now == DataOfNext(call'.target)
           IN  /\ Len(now) = Len(was)
               /\ Ids(now) = Ids(was)
               /\ \A k \in 1..Len(now) - 1 :
                      ~item_lt(heap'[now[k + 1]], heap'[now[k]])
               /\ \A k \in 1..Len(now) : heap'[now[k]].index = k
               /\ \A id \in DOMAIN heap :
                      /\ heap'[id].start = heap[id].start
                      /\ heap'[id].end = heap[id].end]_vars

(* C12's case: clean_indexes() on two items has left the earlier one first, *)
(* with index 1, and the later one second, with index 2.                   *)
C12_Witness ==
    /\ op = "frame"
    /\ calls = 1
    /\ call.name = "clean_indexes"
    /\ call.target = 0
    /\ subs = <<2, 1>>
    /\ heap[2].start = 0 /\ heap[1].start = 500
    /\ heap[2].index = 1 /\ heap[1].index = 2

(* C13: a clean_indexes() that follows a clean_indexes() of the same       *)
(* collection changes nothing: neither the order nor any index.            *)
C13_Idempotent ==
    [][(/\ Calls("clean_indexes")
        /\ call.name = "clean_indexes"
        /\ call.target = call'.target) =>
           /\ heap' = heap
           /\ subs' = subs
           /\ slices' = slices]_vars

(* C13's case: clean_indexes() twice on two items of equal (start, end).   *)
C13_Witness ==
    /\ op = "frame"
    /\ call.name = "clean_indexes"
    /\ call.before = [name |-> "clean_indexes", target |-> 0]
    /\ call.target = 0
    /\ Len(subs) = 2
    /\ heap[1].start = heap[2].start
    /\ heap[1].end = heap[2].end
    /\ subs = <<2, 1>>

(***************************************************************************)
(* stream() as a lazy sequence.                                            *)
(***************************************************************************)
(* The k-th line the generator pulls: a line of the source, or the one     *)
(* blank line after the last.                                              *)
Pulled(k) == IF k <= Len(source_file) THEN source_file[k] ELSE <<NL>>

(* The lines pulled since the last blank line, n lines having been pulled. *)
OpenBlock(n) ==
    LET blank == {k \in 1..n : ~strip_is_true(Pulled(k))}
        a == IF blank = {} THEN 0
             ELSE CHOOSE k \in blank : \A x \in blank : x <= k
    IN  [k \in 1..(n - a) |-> Pulled(a + k)]

(* C14: stream() pulls one line at a time; the item of a well-formed block *)
(* is yielded in the step that takes the block's blank line, and in no     *)
(* other step is anything yielded; the accumulator holds the lines pulled  *)
(* since the last blank line and nothing more; the generator ends after    *)
(* the one blank line that follows the source, and then nothing changes.   *)
C14_Incremental ==
    /\ [][(op = "stream" /\ pc = "run" /\ index' # index) =>
              /\ index' = index + 1
              /\ IF /\ ~strip_is_true(Pulled(index'))
                    /\ string_buffer # <<>>
                    /\ from_lines(string_buffer).ok
                 THEN yielded' = Append(yielded, from_lines(string_buffer).item)
                 ELSE yielded' = yielded]_vars
    /\ [](op = "stream" =>
              /\ index <= Len(source_file) + 1
              /\ string_buffer = OpenBlock(index)
              /\ pc = "exhausted" => index = Len(source_file) + 1)
    /\ [][(op = "stream" /\ pc = "exhausted") =>
              /\ yielded' = yielded
              /\ index' = index
              /\ pc' = pc]_vars

(* C14's case: the first of several blocks is well-formed, its blank line  *)
(* has just been taken and its item yielded, and the lines after that      *)
(* blank line have not been pulled.                                        *)
C14_Witness ==
    /\ op = "stream"
    /\ pc = "run"
    /\ Len(Blocks) >= 2
    /\ WellFormed(Blocks[1])
    /\ index = Blocks[1].stop + 1
    /\ index < Len(source_file)
    /\ yielded = <<from_lines(Blocks[1].lines).item>>
    /\ string_buffer = <<>>

(***************************************************************************)
(* The pointers in the grouping branches of match().                       *)
(***************************************************************************)
(* The iteration about to run compares self[i] and other[j]: their starts  *)
(* are within T and end_delta is beyond it, on the side given.             *)
Grouping(side) ==
    /\ op = "match"
    /\ pc = "loop"
    /\ loop_test(self, other, i, j)
    /\ Abs(Get(self, i).start - Get(other, j).start) <= T
    /\ IF side = "one_to_many"
       THEN Get(self, i).end - Get(other, j).end > T
       ELSE Get(self, i).end - Get(other, j).end < 0 - T

(* The look-ahead of lines 372 and 393: the next record of the grouped     *)
(* track ends more than T after the single record.                         *)
Skips(side) ==
    IF side = "one_to_many"
    THEN j + 1 < Len(other) /\ Get(other, j + 1).end - Get(self, i).end > T
    ELSE i + 1 < Len(self) /\ Get(self, i + 1).end - Get(other, j).end > T

(* The records in the bag: the current one and the ones after it that end  *)
(* less than T after the single record.                                    *)
BagSize(side) ==
    LET More(n) ==
            \A k \in 1..n :
                IF side = "one_to_many"
                THEN /\ j + k < Len(other)
                     /\ Get(other, j + k).end - Get(self, i).end < T
                ELSE /\ i + k < Len(self)
                     /\ Get(self, i + k).end - Get(other, j).end < T
    IN  1 + (CHOOSE n \in 0..(Len(self) + Len(other)) :
                 More(n) /\ ~More(n + 1))

(* C15 as stated: an iteration that takes a grouping branch moves i by one *)
(* and j by one, whatever the size of the group.                           *)
C15_OneStepEach ==
    [][((Grouping("one_to_many") \/ Grouping("many_to_one"))
            /\ pc' = "loop") =>
           (i' = i + 1 /\ j' = j + 1)]_vars

(* C15, amended: an iteration that takes a grouping branch and completes   *)
(* moves the pointer of the single record by one and the pointer of the    *)
(* grouped track past the whole bag; both move by one when the look-ahead  *)
(* skips the pair.                                                         *)
C15_PastTheBag ==
    [][/\ (Grouping("one_to_many") /\ pc' = "loop") =>
              /\ i' = i + 1
              /\ j' = j + (IF Skips("one_to_many") THEN 1
                           ELSE BagSize("one_to_many"))
       /\ (Grouping("many_to_one") /\ pc' = "loop") =>
              /\ j' = j + 1
              /\ i' = i + (IF Skips("many_to_one") THEN 1
                           ELSE BagSize("many_to_one"))]_vars

(* C15's case: an iteration has taken the one-to-many branch with a bag of *)
(* two records of other, emitted, and moved j by two and i by one.         *)
C15_Witness ==
    /\ op = "match"
    /\ last.branch = "one_to_many"
    /\ last.emitted
    /\ last.gj = last.j0 + 1
    /\ j = last.j0 + 2
    /\ i = last.i0 + 1

(* The end of the last record of the bag and the end of the single record *)
(* it is matched with.                                                     *)
BagEndDelta(side) ==
    IF side = "one_to_many"
    THEN Get(other, j + BagSize(side) - 1).end - Get(self, i).end
    ELSE Get(self, i + BagSize(side) - 1).end - Get(other, j).end

(* C16 as stated: an iteration that accumulates a bag and completes emits  *)
(* a merged record if and only if the end of the bag's last record is      *)
(* within T of the end of the single record, T included.                   *)
C16_InclusiveTolerance ==
    [][\A side \in {"one_to_many", "many_to_one"} :
           (Grouping(side) /\ ~Skips(side) /\ pc' = "loop") =>
               (Len(ret') = Len(ret) + 1 <=> Abs(BagEndDelta(side)) <= T)]_vars

(***************************************************************************)
(* The separator write_into() writes.                                      *)
(***************************************************************************)
ConfiguredEol ==
    IF eol # <<>> THEN eol ELSE IF _eol # <<>> THEN _eol ELSE linesep

(* The item's lines, each ended by the line break e.                       *)
Rendering(item, e) ==
    Join(<<<<IntToken(item.index)>>,
           <<FormatTime(item.start), SP, ARROW, SP, FormatTime(item.end)>>>>
             \o TextLines(item.text, <<>>), e) \o e

(* Every "\r" and "\n" of the string is part of a line break e.            *)
LineBreaksAre(string, e) ==
    \A k \in 1..Len(string) :
        /\ string[k] = NL =>
               IF e = <<NL>> THEN TRUE
               ELSE IF e = <<CR>> THEN FALSE
               ELSE k > 1 /\ string[k - 1] = CR
        /\ string[k] = CR =>
               IF e = <<CR>> THEN TRUE
               ELSE IF e = <<NL>> THEN FALSE
               ELSE k < Len(string) /\ string[k + 1] = NL

(* C17: for each item write_into() writes the item's rendering with the    *)
(* configured eol at every line break, and after it one eol, unless the    *)
(* rendering already ends with two; so what is written for an item ends    *)
(* with a blank line, exactly one when the rendering did not end with two  *)
(* eols, and every line break written is the configured eol.               *)
C17_Separator ==
    [][(op = "roundtrip" /\ pc = "write" /\ written' = written + 1) =>
           LET e == ConfiguredEol
               rendering == Rendering(data[written + 1], e)
               chunk == SubSeq(output_file', Len(output_file) + 1,
                               Len(output_file'))
           IN  /\ SubSeq(output_file', 1, Len(output_file)) = output_file
               /\ chunk = rendering
                              \o (IF endswith(rendering, e \o e)
                                  THEN <<>> ELSE e)
               /\ endswith(chunk, e \o e)
               /\ ~endswith(rendering, e \o e) => ~endswith(chunk, e \o e \o e)
               /\ LineBreaksAre(chunk, e)]_vars

(* C17's case: written with "\r\n", a text of two lines and then a text    *)
(* that ends with a line break of its own.                                 *)
C17_Witness ==
    /\ op = "roundtrip"
    /\ pc = "write"
    /\ written = 2
    /\ ConfiguredEol = <<CR, NL>>
    /\ data[1].text = <<Word("a"), NL, Word("b")>>
    /\ data[2].text = <<Word("a"), NL>>
    /\ endswith(output_file, <<NL, CR, NL>>)
    /\ ~endswith(output_file, <<CR, NL, CR, NL, CR, NL>>)

(***************************************************************************)
(* Properties of read() and of the eol property.                           *)
(***************************************************************************)
(* C18 as stated: when read() has returned, the collection holds what it   *)
(* held before and then the items stream() yields over all the lines of    *)
(* the source, the first line included, whatever the kind of the source.   *)
C18_ReadSeesAllLines ==
    (op = "read" /\ pc = "ready" /\ string_iterable.kind # "none") =>
        data = before \o stream_run(string_iterable.lines, 0, <<>>, <<>>,
                                    error_handling, py).yielded

Reads == SelectSeq(history, LAMBDA e : e.name = "read")

(* C19 as stated: once read() has been called, the stored eol is the one   *)
(* given to the constructor, or else the one the first read() detected.    *)
C19_FirstReadDecides ==
    (op = "read" /\ Reads # <<>>) =>
        _eol = IF given # <<>> THEN given ELSE Reads[1].value

(* C19, amended: the stored eol is the one given to the constructor, or    *)
(* else the first one stored afterwards, by an assignment or by read(),    *)
(* whichever came first; once an eol is stored no read() and no assignment *)
(* changes it, and the items the collection holds stay as they are.        *)
C19_WriteOnce ==
    /\ [](op = "read" =>
              _eol = IF given # <<>> THEN given
                     ELSE IF history = <<>> THEN <<>>
                     ELSE history[1].value)
    /\ [][(op = "read" /\ _eol # <<>>) => _eol' = _eol]_vars
    /\ [][op = "read" => SubSeq(data', 1, Len(data)) = data]_vars

(* C19's case: no eol given, "\r" assigned, then a source of "\n" lines    *)
(* read: the stored eol is "\r" and the item has been appended.            *)
C19_Witness ==
    /\ op = "read"
    /\ pc = "ready"
    /\ given = <<>>
    /\ history = <<Event("assign", <<CR>>), Event("read", <<NL>>)>>
    /\ _eol = <<CR>>
    /\ Len(data) = 1

(***************************************************************************)
(* Where the merged records of match() come from.                          *)
(***************************************************************************)
(* C20: at every point of match() there are at most min(i, j) merged       *)
(* records, hence at most min(len(self), len(other)) at the end; every     *)
(* step that emits appends one record over the (start, end) of a record of *)
(* self that this step moves i past, and moves j; no step changes self or  *)
(* other.                                                                  *)
C20_EmittedFromSelf ==
    /\ [](op = "match" =>
              /\ Len(ret) <= i /\ Len(ret) <= j
              /\ i <= Len(self) /\ j <= Len(other))
    /\ [][op = "match" =>
              /\ self' = self
              /\ other' = other
              /\ \/ ret' = ret
                 \/ /\ Len(ret') = Len(ret) + 1
                    /\ SubSeq(ret', 1, Len(ret)) = ret
                    /\ j' > j
                    /\ \E n \in i..(i' - 1) :
                           /\ ret'[Len(ret')].start = Get(self, n).start
                           /\ ret'[Len(ret')].end = Get(self, n).end]_vars

(* C20's case: match() has returned as many merged records as other has    *)
(* records, the last one from a bag of two records of self.                *)
C20_Witness ==
    /\ op = "match"
    /\ pc = "done"
    /\ Len(other) = 2
    /\ Len(self) = 3
    /\ Len(ret) = 2
    /\ last.branch = "many_to_one"
    /\ last.emitted
    /\ last.gi = last.i0 + 1

=============================================================================
